---------------------------- MODULE Spec2Model ----------------------------
(***************************************************************************)
(* Model of the waigo test-utils harness.                                  *)
(*                                                                         *)
(* The repository holds four generations of the harness:                   *)
(*   "create"  src/index.js 29-296          exports.create, synchronous    *)
(*   "promise" src/index.js 334-634         module.exports, promises       *)
(*   "tools1"  src/unnamed/part_000 28-372  getTools, synchronous          *)
(*   "tools2"  src/unnamed/part_000 447-808 getTools, synchronous, bridge  *)
(*                                                                         *)
(* Strings are sequences of character tokens, so that path.join,           *)
(* path.extname, path.dirname and String.endsWith are computed as node     *)
(* computes them.  A path is a sequence of segments below the filesystem   *)
(* root; a segment is a sequence of character tokens.                      *)
(***************************************************************************)
EXTENDS Integers, Sequences, FiniteSets, TLC

VARIABLES
  variant,   \* which generation of the harness is under test
  fs,        \* the filesystem: [dirs : set of paths, files : path -> text]
  pc,        \* position of the test in its lifecycle
  last,      \* the most recent harness call, with the filesystem before it
  built,     \* the fixture-construction call of the test body
  tasks,     \* promise generation: the primitive operations of the call made
  outcome,   \* promise generation: state of the promise the call returned
  bridge,    \* the call of awaitAsync or mustThrow under way, and its outcome
  prim,      \* the last call of a filesystem primitive, and the one before
  application,       \* the application under test and the lifecycle calls made
  hooks      \* the suite registered with the runner and the sandboxes made

fsVars == <<variant, fs, pc, last, built>>

asyncVars == <<tasks, outcome>>

vars ==
  <<variant, fs, pc, last, built, tasks, outcome, bridge, prim, application,
    hooks>>

-----------------------------------------------------------------------------
(* Bounds *)

\* largest number of entries in one batch of module specs
MaxBatch == 2

\* largest number of tests the runner takes from one suite
MaxTests == 3

\* most suspension points in a suspend/resume sequence
MaxYields == 2

\* most lifecycle calls (initApp, startApp, shutdownApp) of a run
MaxAppCalls == 4

-----------------------------------------------------------------------------
(* Sequences and strings *)

Last(s) == s[Len(s)]

Front(s) == SubSeq(s, 1, Len(s) - 1)

IsPrefix(p, q) == Len(p) <= Len(q) /\ SubSeq(q, 1, Len(p)) = p

Prefixes(p) == { SubSeq(p, 1, k) : k \in 0..Len(p) }

\* String.prototype.endsWith
EndsWith(s, suffix) ==
  /\ Len(s) >= Len(suffix)
  /\ SubSeq(s, Len(s) - Len(suffix) + 1, Len(s)) = suffix

\* the segments of a string between its "/" separators (never empty)
RECURSIVE Split(_)
Split(s) ==
  IF s = <<>> THEN << <<>> >>
  ELSE LET r == Split(Tail(s))
       IN IF Head(s) = "/" THEN << <<>> >> \o r
          ELSE << <<Head(s)>> \o Head(r) >> \o Tail(r)

\* path.normalize on an absolute path: "" and "." are dropped, ".." pops
RECURSIVE Normalize(_, _)
Normalize(base, segs) ==
  IF segs = <<>> THEN base
  ELSE LET s == Head(segs)
       IN IF s = <<>> \/ s = <<".">> THEN Normalize(base, Tail(segs))
          ELSE IF s = <<".", ".">>
               THEN Normalize(IF base = <<>> THEN base ELSE Front(base), Tail(segs))
               ELSE Normalize(Append(base, s), Tail(segs))

\* path.join(folder, name): the normalized segments, and whether the joined
\* string keeps a trailing separator
JoinPath(folder, name) ==
  [ segs  |-> Normalize(folder, Split(name)),
    trail |-> name # <<>> /\ Last(name) = "/" ]

\* path.join(folder, name) for a name known to end in no separator
JoinSegs(folder, name) == Normalize(folder, Split(name))

\* string concatenation joined + ext, read back as a path
AppendStr(joined, ext) ==
  IF joined.trail \/ joined.segs = <<>>
  THEN Append(joined.segs, ext)
  ELSE [joined.segs EXCEPT ![Len(joined.segs)] = @ \o ext]

\* path.dirname of a path string that ends in no separator
DirName(p) == IF p = <<>> THEN p ELSE Front(p)

RECURSIVE TrimSlashes(_)
TrimSlashes(s) ==
  IF s # <<>> /\ Last(s) = "/" THEN TrimSlashes(Front(s)) ELSE s

\* the last path component of a string, trailing separators ignored
LastComponent(s) == Last(Split(TrimSlashes(s)))

\* index of the right-most "." of a component, 0 when there is none
LastDot(c) ==
  LET ds == { i \in 1..Len(c) : c[i] = "." }
  IN IF ds = {} THEN 0 ELSE CHOOSE i \in ds : \A j \in ds : j <= i

\* path.extname: from the last "." of the last component to its end; empty
\* when there is no ".", when the "." starts the component, or for ".."
ExtName(name) ==
  LET c == LastComponent(name)
      d == LastDot(c)
  IN IF d = 0 \/ d = 1 \/ c = <<".", ".">> THEN <<>> ELSE SubSeq(c, d, Len(c))

-----------------------------------------------------------------------------
(* The harness generations and their folders *)

Variants == {"create", "promise", "tools1", "tools2"}

\* the generations whose primitives return promises
IsPromise(v) == v = "promise"

\* the generations built by getTools
IsTools(v) == v \in {"tools1", "tools2"}

Cwd == << <<"cwd">> >>

TestDataFolder == Cwd \o << <<"test">>, <<"data">> >>

AppFolder(v) ==
  TestDataFolder \o << IF v = "tools2" THEN <<"src">> ELSE <<"app">> >>

PublicFolder == TestDataFolder \o << <<"public">> >>

PluginsFolder == Cwd \o << <<"node_modules">> >>

\* the suffix a test plugin's name must carry
Marker == <<"_", "TESTPLUGIN">>

DefaultExt == <<".", "js">>

ReadmeText == <<"The presence of this file ensures that node-findit works">>

IndexJsText == <<"module.exports = {}">>

PackageJsonText(name) ==
  <<"{ \"name\": \"">> \o name \o <<"\", \"version\": \"0.0.1\" }">>

\* the generated content of a module given as a bare name
ModuleContent(defaultContent) ==
  <<"module.exports=\"">> \o defaultContent \o <<"\";">>

AppLabel == <<"app">>

-----------------------------------------------------------------------------
(* The filesystem *)

Result(f, res) == [fs |-> f, res |-> res]

\* run the next step only if the previous one did not fail
Then(r, Op(_)) == IF r.res = "ok" THEN Op(r.fs) ELSE r

IsFile(f, p) == p \in DOMAIN f.files

IsDir(f, p) == p \in f.dirs

Exists(f, p) == IsFile(f, p) \/ IsDir(f, p)

\* mkdir -p can make the folder unless a file sits on the way to it
CanMkdirP(f, folder) == \A q \in Prefixes(folder) : ~IsFile(f, q)

MkdirP(f, folder) ==
  IF CanMkdirP(f, folder)
  THEN [f EXCEPT !.dirs = @ \cup Prefixes(folder)]
  ELSE f

\* rm -rf / rimraf: the path and everything below it
RmRf(f, p) ==
  [ dirs  |-> { d \in f.dirs : ~IsPrefix(p, d) },
    files |-> [ q \in { x \in DOMAIN f.files : ~IsPrefix(p, x) } |-> f.files[q] ] ]

\* fs.writeFileSync / fs.writeFile: the parent must be a directory and the
\* path must not name a directory ("x/." names x)
CanWrite(f, p) ==
  /\ p # <<>>
  /\ Last(p) # <<".">>
  /\ IsDir(f, Front(p))
  /\ ~IsDir(f, p)

\* Text is a sequence of UTF-16 code units; a file holds Unicode scalar
\* values.  Three code units stand for the surrogates and the character a
\* pair of them encodes, one scalar value for the replacement character.
HighSurrogate == "uD83D"

LowSurrogate == "uDE00"

PairedScalar == "U+1F600"

ReplacementChar == "uFFFD"

\* the text has no surrogate outside a high-low pair
RECURSIVE WellFormed(_)
WellFormed(s) ==
  IF s = <<>> THEN TRUE
  ELSE IF Len(s) >= 2 /\ s[1] = HighSurrogate /\ s[2] = LowSurrogate
       THEN WellFormed(SubSeq(s, 3, Len(s)))
       ELSE s[1] \notin {HighSurrogate, LowSurrogate} /\ WellFormed(Tail(s))

\* what fs.writeFileSync / fs.writeFile store for a string: a surrogate pair
\* is one scalar value, an unpaired surrogate becomes the replacement
\* character
RECURSIVE Utf8Encode(_)
Utf8Encode(s) ==
  IF s = <<>> THEN <<>>
  ELSE IF Len(s) >= 2 /\ s[1] = HighSurrogate /\ s[2] = LowSurrogate
       THEN <<PairedScalar>> \o Utf8Encode(SubSeq(s, 3, Len(s)))
       ELSE IF s[1] \in {HighSurrogate, LowSurrogate}
            THEN <<ReplacementChar>> \o Utf8Encode(Tail(s))
            ELSE <<s[1]>> \o Utf8Encode(Tail(s))

\* what fs.readFileSync / fs.readFile with encoding 'utf8' give back
RECURSIVE Utf8Decode(_)
Utf8Decode(b) ==
  IF b = <<>> THEN <<>>
  ELSE (IF b[1] = PairedScalar THEN <<HighSurrogate, LowSurrogate>>
        ELSE <<b[1]>>) \o Utf8Decode(Tail(b))

WriteRaw(f, p, contents) ==
  IF CanWrite(f, p)
  THEN Result([f EXCEPT !.files = (p :> Utf8Encode(contents)) @@ @], "ok")
  ELSE Result(f, "io")

\* (mutant) the stored scalar values are handed back undecoded
ReadRawUndecoded(f, p) ==
  IF IsFile(f, p) THEN [res |-> "ok", value |-> f.files[p]]
  ELSE [res |-> "io", value |-> <<>>]

\* fs.readFileSync / fs.readFile: the path must name a file
ReadRaw(f, p) ==
  IF IsFile(f, p) THEN [res |-> "ok", value |-> Utf8Decode(f.files[p])]
  ELSE [res |-> "io", value |-> <<>>]

\* fs.unlink: the path must name a file
Unlink(f, p) ==
  IF IsFile(f, p)
  THEN Result([f EXCEPT !.files =
                 [ q \in DOMAIN f.files \ {p} |-> f.files[q] ]], "ok")
  ELSE Result(f, "io")

\* shell.rm('-f'): removes a file, passes over a missing path, and reports
\* a directory without raising
RmF(f, p) == IF IsFile(f, p) THEN Unlink(f, p).fs ELSE f

\* fs.readdirSync: the names of the immediate children
ReadDir(f, folder) ==
  { Last(p) : p \in { q \in f.dirs \cup DOMAIN f.files :
                        Len(q) = Len(folder) + 1 /\ IsPrefix(folder, q) } }

-----------------------------------------------------------------------------
(* Filesystem primitives of the harness *)

\* (mutant) without -p: a folder that exists is an error
createFolderExclusive(v, f, folder) ==
  IF IsDir(f, folder) \/ ~CanMkdirP(f, folder)
  THEN Result(f, "io")
  ELSE Result(MkdirP(f, folder), "ok")

\* shell.mkdir('-p') reports a failure without raising; mkdirp rejects
createFolder(v, f, folder) ==
  IF IsPromise(v) /\ ~CanMkdirP(f, folder)
  THEN Result(f, "io")
  ELSE Result(MkdirP(f, folder), "ok")

deleteFolder(v, f, folder) == Result(RmRf(f, folder), "ok")

\* getTools creates the parent folder first; the older generations do not
writeFile(v, f, filePath, contents) ==
  IF IsTools(v)
  THEN Then(createFolder(v, f, DirName(filePath)),
            LAMBDA g : WriteRaw(g, filePath, contents))
  ELSE WriteRaw(f, filePath, contents)

readFile(v, f, filePath) == ReadRaw(f, filePath)

\* fs.unlinkSync(filePath)
deleteFile(v, f, filePath) == Unlink(f, filePath)

\* fs.chmodSync(filePath, mode): the path must exist; the tree keeps no
\* modes, the test's process reads and writes whatever the mode is
chmodFile(v, f, filePath, mode) ==
  Result(f, IF Exists(f, filePath) THEN "ok" ELSE "io")

\* the generations that have deleteFile and chmodFile
HasFileTools(v) == ~IsPromise(v)

\* fp = path.join(appFolder, '..', 'package.json')
PackageJsonPath(v) ==
  JoinSegs(AppFolder(v), <<".", ".", "/", "package", ".", "json">>)

writePackageJson(v, f, contents) == writeFile(v, f, PackageJsonPath(v), contents)

\* the promise generation checks fs.exists and then unlinks; the others
\* call shell.rm('-f')
deletePackageJson(v, f) ==
  IF IsPromise(v)
  THEN IF Exists(f, PackageJsonPath(v)) THEN Unlink(f, PackageJsonPath(v))
       ELSE Result(f, "ok")
  ELSE Result(RmF(f, PackageJsonPath(v)), "ok")

-----------------------------------------------------------------------------
(* Fixture tree builder *)

\* the generations that keep a public asset root
HasPublic(v) == IsTools(v)

createTestFolders(v, f) ==
  LET app == createFolder(v, f, AppFolder(v))
      pub == IF HasPublic(v)
             THEN Then(app, LAMBDA g : createFolder(v, g, PublicFolder))
             ELSE app
  IN Then(pub, LAMBDA g :
       writeFile(v, g, Append(AppFolder(v), <<"README">>), ReadmeText))

\* (mutant) the sweep takes every immediate child
TestPluginsUnfiltered(f) == ReadDir(f, PluginsFolder)

\* the immediate children of the plugins folder that the sweep deletes
TestPlugins(f) == { c \in ReadDir(f, PluginsFolder) : EndsWith(c, Marker) }

RECURSIVE DeleteAll(_, _, _)
DeleteAll(v, f, folders) ==
  IF folders = {} THEN Result(f, "ok")
  ELSE LET p == CHOOSE x \in folders : TRUE
       IN Then(deleteFolder(v, f, p),
               LAMBDA g : DeleteAll(v, g, folders \ {p}))

\* fs.readdirSync / fs.readdirAsync fail when the plugins folder is missing
deleteTestFolders(v, f) ==
  LET pub == IF HasPublic(v) THEN deleteFolder(v, f, PublicFolder)
             ELSE Result(f, "ok")
      app == Then(pub, LAMBDA g : deleteFolder(v, g, AppFolder(v)))
  IN Then(app, LAMBDA g :
       IF ~IsDir(g, PluginsFolder) THEN Result(g, "io")
       ELSE DeleteAll(v, g, { Append(PluginsFolder, c) : c \in TestPlugins(g) }))

-----------------------------------------------------------------------------
(* Sequential module materializer *)

\* A batch of module specs: nothing, an array of names, or an object of
\* name -> content pairs in insertion order.
NoModules == [kind |-> "none", entries |-> <<>>]

Entry(name, content) == [name |-> name, content |-> content]

\* _.zipObject: one key per distinct name, at the place of its first
\* occurrence, holding the value of its last occurrence
RECURSIVE ZipFrom(_, _)
ZipFrom(es, i) ==
  IF i > Len(es) THEN <<>>
  ELSE LET first == \A j \in 1..(i - 1) : es[j].name # es[i].name
           same  == { j \in i..Len(es) : es[j].name = es[i].name }
           lastj == CHOOSE j \in same : \A k \in same : k <= j
       IN (IF first THEN << Entry(es[i].name, es[lastj].content) >> ELSE <<>>)
          \o ZipFrom(es, i + 1)

zipObject(es) == ZipFrom(es, 1)

\* the name -> content pairs createModules iterates over
Expand(modules, defaultContent) ==
  IF modules.kind = "none" THEN <<>>
  ELSE IF modules.kind = "list"
       THEN zipObject([ i \in 1..Len(modules.entries) |->
              Entry(modules.entries[i].name, ModuleContent(defaultContent)) ])
       ELSE modules.entries

\* getTools takes the extension from the name and falls back to ".js";
\* the older generations always append ".js"
ModuleExt(v, moduleName) ==
  IF IsTools(v) /\ ExtName(moduleName) # <<>> THEN ExtName(moduleName)
  ELSE DefaultExt

\* fileName = path.join(srcFolder, moduleName) + extName
ModuleFileName(v, srcFolder, moduleName) ==
  AppendStr(JoinPath(srcFolder, moduleName), ModuleExt(v, moduleName))

\* (mutant) the file is written without its folder being made first
createModuleNoFolder(v, f, srcFolder, moduleName, moduleContent) ==
  WriteRaw(f, ModuleFileName(v, srcFolder, moduleName), moduleContent)

createModule(v, f, srcFolder, moduleName, moduleContent) ==
  LET fileName   == ModuleFileName(v, srcFolder, moduleName)
      folderPath == DirName(fileName)
  IN Then(createFolder(v, f, folderPath),
          LAMBDA g : writeFile(v, g, fileName, moduleContent))

\* (mutant) a failed entry does not end the run
RECURSIVE CreateEachKeepGoing(_, _, _, _)
CreateEachKeepGoing(v, f, srcFolder, es) ==
  IF es = <<>> THEN Result(f, "ok")
  ELSE LET r    == createModule(v, f, srcFolder, Head(es).name, Head(es).content)
           rest == CreateEachKeepGoing(v, r.fs, srcFolder, Tail(es))
       IN Result(rest.fs, IF r.res = "ok" THEN rest.res ELSE r.res)

\* the entries one after the other; the first failure ends the run
RECURSIVE CreateEach(_, _, _, _)
CreateEach(v, f, srcFolder, es) ==
  IF es = <<>> THEN Result(f, "ok")
  ELSE Then(createModule(v, f, srcFolder, Head(es).name, Head(es).content),
            LAMBDA g : CreateEach(v, g, srcFolder, Tail(es)))

createModules(v, f, srcFolder, modules, defaultContent) ==
  CreateEach(v, f, srcFolder, Expand(modules, defaultContent))

\* (mutant) the default content is built from the wrong label
createAppModulesOtherLabel(v, f, modules) ==
  createModules(v, f, AppFolder(v), modules, <<"pub">>)

createAppModules(v, f, modules) ==
  createModules(v, f, AppFolder(v), modules, AppLabel)

-----------------------------------------------------------------------------
(* Plugin packages *)

\* (mutant) a marker check that forgets the underscore
HasMarkerLoose(name) == EndsWith(name, <<"TESTPLUGIN">>)

\* the precondition of createPluginModules
HasMarker(name) == EndsWith(name, Marker)

PluginFolderPath(name) == JoinSegs(PluginsFolder, name)

PluginSrcPath(name) == Append(PluginFolderPath(name), <<"src">>)

PluginPublicPath(name) == Append(PluginFolderPath(name), <<"public">>)

\* package.json and index.js: one after the other when synchronous, both
\* started together (Promise.all) in the promise generation
WriteDescriptors(v, f, name) ==
  LET pkg == Append(PluginFolderPath(name), <<"package", ".", "json">>)
      idx == Append(PluginFolderPath(name), <<"index", ".", "js">>)
      a   == writeFile(v, f, pkg, PackageJsonText(name))
      b   == writeFile(v, a.fs, idx, IndexJsText)
  IN IF IsPromise(v)
     THEN Result(b.fs, IF a.res = "ok" THEN b.res ELSE a.res)
     ELSE Then(a, LAMBDA g : writeFile(v, g, idx, IndexJsText))

createPluginModules(v, f, name, modules) ==
  IF ~HasMarker(name) THEN Result(f, "precondition")
  ELSE
    LET root == createFolder(v, f, PluginFolderPath(name))
        desc == Then(root, LAMBDA g : WriteDescriptors(v, g, name))
        pub  == IF HasPublic(v)
                THEN Then(desc, LAMBDA g : createFolder(v, g, PluginPublicPath(name)))
                ELSE desc
        src  == Then(pub, LAMBDA g : createFolder(v, g, PluginSrcPath(name)))
        rdme == Then(src, LAMBDA g :
                  writeFile(v, g, Append(PluginSrcPath(name), <<"README">>), ReadmeText))
    IN Then(rdme, LAMBDA g : createModules(v, g, PluginSrcPath(name), modules, name))

-----------------------------------------------------------------------------
(* Inputs *)

\* module names: plain, nested, two siblings, a second spelling of a/b, one
\* with an extension, one climbing out of the folder, one below the README
\* marker file, one ending in a separator
ModuleNames ==
  { <<"a">>,
    <<"a", "/", "b">>,
    <<"a", "/", "c">>,
    <<"a", "/", ".", "/", "b">>,
    <<"a", ".", "b">>,
    <<".", ".", "/", "a">>,
    <<"README", "/", "a">>,
    <<"a", "/">> }

\* plugin names: with the marker, nested below a folder, the bare marker,
\* without it, without the underscore, marker followed by a separator or a
\* letter
PluginNames ==
  { <<"p", "_", "TESTPLUGIN">>,
    <<"a", "/", "p", "_", "TESTPLUGIN">>,
    <<"_", "TESTPLUGIN">>,
    <<"p">>,
    <<"p", "TESTPLUGIN">>,
    <<"p", "_", "TESTPLUGIN", "/">>,
    <<"p", "_", "TESTPLUGIN", "x">> }

NameSeqs == UNION { [1..k -> ModuleNames] : k \in 0..MaxBatch }

Distinct(ns) == \A i, j \in DOMAIN ns : i # j => ns[i] # ns[j]

\* the explicit content of the i-th pair of an object
ContentOf(i) == << ToString(i) >>

ListOf(ns) ==
  [kind |-> "list", entries |-> [ i \in DOMAIN ns |-> Entry(ns[i], <<>>) ]]

ObjectOf(ns) ==
  [kind |-> "object", entries |-> [ i \in DOMAIN ns |-> Entry(ns[i], ContentOf(i)) ]]

Batches ==
  {NoModules}
    \cup { ListOf(ns) : ns \in NameSeqs }
    \cup { ObjectOf(ns) : ns \in { x \in NameSeqs : x # <<>> /\ Distinct(x) } }

\* folders a test may make by hand before it builds its fixtures
SetupFolders(v) == { Append(AppFolder(v), <<"a">>) }

PubLabel == <<"pub">>

-----------------------------------------------------------------------------
(* The test as a state machine: setup, one fixture construction, teardown *)

Call(op, name, target, modules, label, res, before) ==
  [op |-> op, name |-> name, target |-> target, modules |-> modules,
   label |-> label, res |-> res, before |-> before]

\* the project folder with its node_modules, holding one installed package
InitFs ==
  LET lib == Append(PluginsFolder, <<"lib">>)
  IN [ dirs  |-> Prefixes(lib),
       files |-> (Append(lib, <<"index", ".", "js">>) :> IndexJsText) ]

NoCall == Call("none", <<>>, <<>>, NoModules, <<>>, "ok", InitFs)

\* what the actions of the test machine leave alone
notFs == <<asyncVars, bridge, prim, application, hooks>>

AsyncIdle == tasks = <<>> /\ outcome = "idle"

\* no filesystem primitive called yet
NoPrim ==
  [op |-> "none", path |-> <<>>, contents |-> <<>>, res |-> "ok",
   value |-> <<>>, before |-> InitFs,
   prevOp |-> "none", prevPath |-> <<>>, prevContents |-> <<>>,
   prevRes |-> "ok"]

\* an object without keys
EmptyObject == [k \in {} |-> 0]

\* no application: nothing initialized, no handle, no lifecycle call made
NoApp ==
  [bound |-> TRUE, inited |-> FALSE, opts |-> EmptyObject,
   handle |-> 0, status |-> <<>>, stops |-> <<>>, config |-> <<>>,
   log |-> <<>>, op |-> "none", arg |-> EmptyObject, step |-> "idle",
   res |-> "ok", from |-> "UNINITIALIZED", old |-> {}, calls |-> 0,
   url |-> <<>>, request |-> <<>>]

\* no suite registered with the runner, no test run, no sandbox made
NoHooks ==
  [registered |-> "no", options |-> FALSE, testBound |-> TRUE, slot |-> 0,
   made |-> 0, restored |-> {}, tests |-> <<>>, phase |-> "idle"]

\* the state of a promise: pending, resolved with a value, failed with an error
NoError == [id |-> 0, kind |-> "none", message |-> ""]

Pending == [state |-> "pending", value |-> "none", error |-> NoError]

Resolved(v) == [state |-> "resolved", value |-> v, error |-> NoError]

Failed(e) == [state |-> "failed", value |-> "none", error |-> e]

NoComputation ==
  [kind |-> "none", ok |-> TRUE, value |-> "none", error |-> NoError,
   steps |-> <<>>]

\* no call of the bridge made
BridgeIdle ==
  [op |-> "idle", comp |-> NoComputation, at |-> 0, done |-> FALSE,
   outcome |-> Pending, settled |-> 0, msg |-> "", verdict |-> "none"]

Init ==
  /\ variant \in Variants
  /\ fs = InitFs
  /\ pc = "setup"
  /\ last = NoCall
  /\ built = NoCall
  /\ AsyncIdle
  /\ bridge = BridgeIdle
  /\ prim = NoPrim
  /\ application = NoApp
  /\ hooks = NoHooks

CreateTestFolders ==
  /\ pc = "setup"
  /\ LET r == createTestFolders(variant, fs)
     IN /\ fs' = r.fs
        /\ last' = Call("createTestFolders", <<>>, <<>>, NoModules, <<>>, r.res, fs)
  /\ UNCHANGED <<variant, pc, built, notFs>>

CreateFolder ==
  /\ pc = "setup"
  /\ \E folder \in SetupFolders(variant) :
       LET r == createFolder(variant, fs, folder)
       IN /\ fs' = r.fs
          /\ last' = Call("createFolder", <<>>, folder, NoModules, <<>>, r.res, fs)
  /\ UNCHANGED <<variant, pc, built, notFs>>

CreateModules ==
  /\ pc = "setup"
  /\ \E modules \in Batches :
       LET r == createModules(variant, fs, PublicFolder, modules, PubLabel)
           c == Call("createModules", <<>>, PublicFolder, modules, PubLabel, r.res, fs)
       IN /\ fs' = r.fs
          /\ last' = c
          /\ built' = c
  /\ pc' = "built"
  /\ UNCHANGED <<variant, notFs>>

CreateAppModules ==
  /\ pc = "setup"
  /\ \E modules \in Batches :
       LET r == createAppModules(variant, fs, modules)
           c == Call("createAppModules", <<>>, AppFolder(variant), modules,
                     AppLabel, r.res, fs)
       IN /\ fs' = r.fs
          /\ last' = c
          /\ built' = c
  /\ pc' = "built"
  /\ UNCHANGED <<variant, notFs>>

CreatePluginModules ==
  /\ pc = "setup"
  /\ \E name \in PluginNames, modules \in Batches :
       LET r == createPluginModules(variant, fs, name, modules)
           c == Call("createPluginModules", name, PluginSrcPath(name), modules,
                     name, r.res, fs)
       IN /\ fs' = r.fs
          /\ last' = c
          /\ built' = c
  /\ pc' = "built"
  /\ UNCHANGED <<variant, notFs>>

DeleteTestFolders ==
  /\ pc = "built"
  /\ LET r == deleteTestFolders(variant, fs)
     IN /\ fs' = r.fs
        /\ last' = Call("deleteTestFolders", <<>>, <<>>, NoModules, <<>>, r.res, fs)
  /\ pc' = "swept"
  /\ UNCHANGED <<variant, built, notFs>>

Next ==
  \/ CreateTestFolders
  \/ CreateFolder
  \/ CreateModules
  \/ CreateAppModules
  \/ CreatePluginModules
  \/ DeleteTestFolders

Spec == Init /\ [][Next]_vars

\* every directory and file sits in a directory, and no path is both
FsWellFormed ==
  /\ <<>> \in fs.dirs
  /\ \A d \in fs.dirs : d = <<>> \/ Front(d) \in fs.dirs
  /\ \A p \in DOMAIN fs.files : p # <<>> /\ Front(p) \in fs.dirs /\ p \notin fs.dirs

-----------------------------------------------------------------------------
(* The promise generation step by step *)

(* A call of the promise generation returns at once; its primitive          *)
(* operations start and complete later.  Each primitive operation is a task *)
(* that starts once the tasks it was chained behind (.then) are done; a     *)
(* task that fails leaves the tasks chained behind it unstarted.            *)

Task(kind, path, contents, entry, deps) ==
  [kind |-> kind, path |-> path, contents |-> contents, entry |-> entry,
   deps |-> deps, status |-> "waiting"]

\* (mutant) every entry is started at once, as _.map with Promise.all would
ChainDepsAllAtOnce(j) == {}

\* promise = promise.then(...): the create-folder task of an entry is chained
\* behind the write-file task of the entry before it
ChainDeps(j) == IF j = 1 THEN {} ELSE {j - 1}

\* the tasks of testUtils.createModules: per entry a create-folder task
\* (odd index) and, chained behind it, a write-file task (even index)
ModuleTasks(srcFolder, es) ==
  [ j \in 1..(2 * Len(es)) |->
      LET i    == (j + 1) \div 2
          file == ModuleFileName("promise", srcFolder, es[i].name)
      IN IF j % 2 = 1
         THEN Task("createFolder", DirName(file), <<>>, i, ChainDeps(j))
         ELSE Task("writeFile", file, es[i].content, i, {j - 1}) ]

Running == { j \in DOMAIN tasks : tasks[j].status = "running" }

CanStart(j) ==
  /\ tasks[j].status = "waiting"
  /\ \A d \in tasks[j].deps : tasks[d].status = "done"

\* the effect of a primitive operation when it completes
Perform(f, t) ==
  IF t.kind = "createFolder" THEN createFolder("promise", f, t.path)
  ELSE IF t.kind = "writeFile" THEN writeFile("promise", f, t.path, t.contents)
  ELSE IF t.kind = "exists"
       THEN Result(f, IF Exists(f, t.path) THEN "ok" ELSE "absent")
  ELSE IF t.kind = "deleteFolder" THEN deleteFolder("promise", f, t.path)
  ELSE IF t.kind = "readdir"
       THEN Result(f, IF IsDir(f, t.path) THEN "ok" ELSE "io")
       ELSE Unlink(f, t.path)

\* the members of a set, one after the other
RECURSIVE SeqOf(_)
SeqOf(S) ==
  IF S = {} THEN <<>>
  ELSE LET x == CHOOSE y \in S : TRUE IN <<x>> \o SeqOf(S \ {x})

\* the tasks of testUtils.createPluginModules: the plugin folder, then
\* package.json and index.js together (Promise.all), then the src folder,
\* its README and, chained behind it, the tasks of createModules
PluginTasks(name, modules) ==
  LET root == PluginFolderPath(name)
      src  == PluginSrcPath(name)
      head == << Task("createFolder", root, <<>>, 0, {}),
                 Task("writeFile", Append(root, <<"package", ".", "json">>),
                      PackageJsonText(name), 0, {1}),
                 Task("writeFile", Append(root, <<"index", ".", "js">>),
                      IndexJsText, 0, {1}),
                 Task("createFolder", src, <<>>, 0, {2, 3}),
                 Task("writeFile", Append(src, <<"README">>), ReadmeText, 0, {4}) >>
      mods == ModuleTasks(src, Expand(modules, name))
  IN head \o [ j \in DOMAIN mods |->
                [mods[j] EXCEPT !.deps = IF @ = {} THEN {Len(head)}
                                         ELSE { d + Len(head) : d \in @ }] ]

\* the tasks testUtils.deleteTestFolders starts with: the app folder, then
\* the listing of the plugins folder
TeardownTasks ==
  << Task("deleteFolder", AppFolder("promise"), <<>>, 0, {}),
     Task("readdir", PluginsFolder, <<>>, 0, {1}) >>

\* the tasks a completed task starts: the listing of the plugins folder
\* maps every marked name to a deleteFolder and hands them to Promise.all
Spawned(f, t, j) ==
  IF t.kind = "readdir" /\ IsDir(f, t.path)
  THEN LET names == SeqOf(TestPlugins(f))
       IN [ i \in DOMAIN names |->
              Task("deleteFolder", Append(PluginsFolder, names[i]), <<>>, i, {j}) ]
  ELSE <<>>

\* how a task ends: done, failed, or (fs.exists) done with the answer no
StatusOf(res) ==
  IF res = "ok" THEN "done" ELSE IF res = "absent" THEN "absent" ELSE "failed"

\* nothing more of the task is to come: it is done, or it was chained behind
\* an `if (exists)` that did not hold
Finished(j) ==
  \/ tasks[j].status \in {"done", "absent"}
  \/ /\ tasks[j].status = "waiting"
     /\ \E d \in tasks[j].deps : tasks[d].status = "absent"

\* what the step-by-step actions leave alone
notAsync == <<variant, pc, built, bridge, application, hooks>>

\* two plugins and the test folders, as an earlier test body left them
TwoPlugins ==
  LET one == createPluginModules("promise", createTestFolders("promise", InitFs).fs,
                                 <<"p", "_", "TESTPLUGIN">>, NoModules).fs
  IN createPluginModules("promise", one, <<"_", "TESTPLUGIN">>, NoModules).fs

\* the fixture tree the promise generation starts from: the project folder
\* alone, with the test folders made, or with two plugins built as well
AsyncStartFs == { InitFs, createTestFolders("promise", InitFs).fs, TwoPlugins }

InitAsync ==
  /\ variant = "promise"
  /\ fs \in AsyncStartFs
  /\ pc = "async"
  /\ last = NoCall
  /\ built = NoCall
  /\ AsyncIdle
  /\ bridge = BridgeIdle
  /\ prim = NoPrim
  /\ application = NoApp
  /\ hooks = NoHooks

\* testUtils.createModules(appFolder, modules, 'app') returns its promise
CallCreateModules ==
  /\ pc = "async"
  /\ outcome = "idle"
  /\ \E modules \in Batches :
       /\ tasks' = ModuleTasks(AppFolder(variant), Expand(modules, AppLabel))
       /\ last' = Call("createModules", <<>>, AppFolder(variant), modules,
                       AppLabel, "pending", fs)
  /\ outcome' = "pending"
  /\ UNCHANGED <<fs, prim, notAsync>>

\* the batches given to createPluginModules when taken step by step
PluginBatches == { b \in Batches : Len(b.entries) <= 1 }

\* testUtils.createPluginModules(name, modules) throws at once for a name
\* without the marker and returns its promise otherwise
CallCreatePluginModules ==
  /\ pc = "async"
  /\ outcome = "idle"
  /\ \E name \in PluginNames, modules \in PluginBatches :
       /\ tasks' = IF HasMarker(name) THEN PluginTasks(name, modules) ELSE <<>>
       /\ outcome' = IF HasMarker(name) THEN "pending" ELSE "thrown"
       /\ last' = Call("createPluginModules", name, PluginSrcPath(name), modules,
                       name, IF HasMarker(name) THEN "pending" ELSE "precondition",
                       fs)
  /\ UNCHANGED <<fs, prim, notAsync>>

\* testUtils.deleteTestFolders() returns its promise
CallDeleteTestFolders ==
  /\ pc = "async"
  /\ outcome = "idle"
  /\ tasks' = TeardownTasks
  /\ last' = Call("deleteTestFolders", <<>>, <<>>, NoModules, <<>>, "pending", fs)
  /\ outcome' = "pending"
  /\ UNCHANGED <<fs, prim, notAsync>>

StartTask ==
  /\ \E j \in DOMAIN tasks :
       /\ CanStart(j)
       /\ tasks' = [tasks EXCEPT ![j].status = "running"]
  /\ UNCHANGED <<fs, last, prim, outcome, notAsync>>

CompleteTask ==
  /\ \E j \in Running :
       LET r == Perform(fs, tasks[j])
       IN /\ fs' = r.fs
          /\ tasks' = [tasks EXCEPT ![j].status = StatusOf(r.res)]
                       \o Spawned(fs, tasks[j], j)
  /\ UNCHANGED <<last, prim, outcome, notAsync>>

\* the returned promise resolves when the chain is through and rejects with
\* the first failure
Settle ==
  /\ outcome = "pending"
  /\ \/ /\ \A j \in DOMAIN tasks : Finished(j)
        /\ outcome' = "resolved"
     \/ /\ \E j \in DOMAIN tasks : tasks[j].status = "failed"
        /\ outcome' = "rejected"
  /\ UNCHANGED <<fs, tasks, last, prim, notAsync>>

NextAsync ==
  \/ CallCreateModules
  \/ CallCreatePluginModules
  \/ CallDeleteTestFolders
  \/ StartTask
  \/ CompleteTask
  \/ Settle

SpecAsync == InitAsync /\ [][NextAsync]_vars

\* once the promise has settled and nothing runs, the tree is the one the
\* call yields when taken as a whole
AsyncAgreesWithWhole ==
  (last.op = "createModules" /\ outcome # "pending" /\ Running = {})
    => LET r == createModules("promise", last.before, last.target,
                              last.modules, last.label)
       IN fs = r.fs /\ (outcome = "resolved" <=> r.res = "ok")

-----------------------------------------------------------------------------
(* The filesystem primitives called one after the other *)

\* a tree made of the given files and of the folders on the way to them
TreeOf(files, folders) ==
  [ dirs  |-> UNION { Prefixes(d) : d \in folders }
                \cup UNION { Prefixes(Front(q)) : q \in DOMAIN files },
    files |-> files ]

\* a test plugin package, an unmarked package holding a marked folder, and a
\* marked file, as children of the plugins folder
PluginsFurniture ==
  (Append(PluginsFolder, <<"lib">>) \o << <<"index", ".", "js">> >>
     :> IndexJsText)
  @@ (Append(PluginsFolder, <<"lib">>)
        \o << <<"n", "_", "TESTPLUGIN">>, <<"x">> >> :> <<"nested">>)
  @@ (Append(PluginsFolder, <<"p", "_", "TESTPLUGIN">>)
        \o << <<"index", ".", "js">> >> :> IndexJsText)
  @@ (Append(PluginsFolder, <<"q", "_", "TESTPLUGIN">>) :> <<"marked file">>)

\* the paths the primitives are called with: a file below the test data
\* folder, a file in a folder that does not exist, a path below that file,
\* and the application root
PrimFile == Append(TestDataFolder, <<"f">>)

PrimPaths(v) ==
  { PrimFile,
    TestDataFolder \o << <<"d">>, <<"g">> >>,
    Append(PrimFile, <<"h">>),
    AppFolder(v) }

\* a tree in use: the fixture roots with the README, a file, a package
\* descriptor and the plugins
Furnished(v) ==
  TreeOf( (Append(AppFolder(v), <<"README">>) :> ReadmeText)
            @@ (PrimFile :> <<"old">>)
            @@ (PackageJsonPath(v) :> <<"{}">>)
            @@ PluginsFurniture,
          IF HasPublic(v) THEN {PublicFolder} ELSE {} )

\* the trees the calls start from: the project folder alone, and one in use
StartTrees(v) == { InitFs, Furnished(v) }

\* the texts written: plain, an unpaired surrogate, a surrogate pair
PrimContents ==
  { <<"new">>, <<"x", HighSurrogate>>, <<HighSurrogate, LowSurrogate>> }

PrimCall(op, path, contents, res, value) ==
  [op |-> op, path |-> path, contents |-> contents, res |-> res,
   value |-> value, before |-> fs,
   prevOp |-> prim.op, prevPath |-> prim.path,
   prevContents |-> prim.contents, prevRes |-> prim.res]

\* a test makes two calls, each after the one before has come back
CanCall == pc \in {"prim0", "prim1"} /\ outcome # "pending"

NextCall == IF pc = "prim0" THEN "prim1" ELSE "prim2"

\* what the calls of the primitives leave alone
notPrim == <<variant, last, built, bridge, application, hooks>>

InitPrim ==
  /\ variant \in Variants
  /\ fs \in StartTrees(variant)
  /\ pc = "prim0"
  /\ last = NoCall
  /\ built = NoCall
  /\ AsyncIdle
  /\ bridge = BridgeIdle
  /\ prim = NoPrim
  /\ application = NoApp
  /\ hooks = NoHooks

\* a call that comes back with the tree and the result r
Returns(op, path, contents, r) ==
  /\ fs' = r.fs
  /\ prim' = PrimCall(op, path, contents, r.res, <<>>)
  /\ pc' = NextCall
  /\ UNCHANGED <<asyncVars, notPrim>>

PrimWriteFile ==
  /\ CanCall
  /\ \E p \in PrimPaths(variant), c \in PrimContents :
       Returns("writeFile", p, c, writeFile(variant, fs, p, c))

PrimReadFile ==
  /\ CanCall
  /\ \E p \in PrimPaths(variant) :
       LET r == readFile(variant, fs, p)
       IN /\ prim' = PrimCall("readFile", p, <<>>, r.res, r.value)
          /\ pc' = NextCall
          /\ UNCHANGED <<fs, asyncVars, notPrim>>

PrimCreateFolder ==
  /\ CanCall
  /\ \E p \in PrimPaths(variant) :
       Returns("createFolder", p, <<>>, createFolder(variant, fs, p))

PrimDeleteFolder ==
  /\ CanCall
  /\ \E p \in PrimPaths(variant) :
       Returns("deleteFolder", p, <<>>, deleteFolder(variant, fs, p))

\* the modes given to chmodFile
PrimModes == { <<"0444">> }

PrimDeleteFile ==
  /\ CanCall
  /\ HasFileTools(variant)
  /\ \E p \in PrimPaths(variant) :
       Returns("deleteFile", p, <<>>, deleteFile(variant, fs, p))

PrimChmodFile ==
  /\ CanCall
  /\ HasFileTools(variant)
  /\ \E p \in PrimPaths(variant), mode \in PrimModes :
       Returns("chmodFile", p, mode, chmodFile(variant, fs, p, mode))

PrimCreateTestFolders ==
  /\ CanCall
  /\ Returns("createTestFolders", <<>>, <<>>, createTestFolders(variant, fs))

PrimDeleteTestFolders ==
  /\ CanCall
  /\ Returns("deleteTestFolders", <<>>, <<>>, deleteTestFolders(variant, fs))

PrimWritePackageJson ==
  /\ CanCall
  /\ Returns("writePackageJson", PackageJsonPath(variant), <<"{}">>,
             writePackageJson(variant, fs, <<"{}">>))

\* (mutant) the unlink is not chained behind the existence check
DeletePackageJsonTasksUnchecked(v) ==
  << Task("exists", PackageJsonPath(v), <<>>, 1, {}),
     Task("unlink", PackageJsonPath(v), <<>>, 1, {}) >>

\* fs.existsAsync(fp).then(function(exists) { if (exists) return unlink })
DeletePackageJsonTasks(v) ==
  << Task("exists", PackageJsonPath(v), <<>>, 1, {}),
     Task("unlink", PackageJsonPath(v), <<>>, 1, {1}) >>

\* shell.rm('-f', fp) comes back at once; the promise generation returns a
\* promise whose two steps are taken later
PrimDeletePackageJson ==
  /\ CanCall
  /\ IF IsPromise(variant)
     THEN /\ tasks' = DeletePackageJsonTasks(variant)
          /\ outcome' = "pending"
          /\ prim' = PrimCall("deletePackageJson", PackageJsonPath(variant),
                              <<>>, "pending", <<>>)
          /\ pc' = NextCall
          /\ UNCHANGED <<fs, notPrim>>
     ELSE Returns("deletePackageJson", PackageJsonPath(variant), <<>>,
                  deletePackageJson(variant, fs))

NextPrim ==
  \/ PrimWriteFile
  \/ PrimReadFile
  \/ PrimCreateFolder
  \/ PrimDeleteFolder
  \/ PrimDeleteFile
  \/ PrimChmodFile
  \/ PrimCreateTestFolders
  \/ PrimDeleteTestFolders
  \/ PrimWritePackageJson
  \/ PrimDeletePackageJson
  \/ StartTask
  \/ CompleteTask
  \/ Settle

SpecPrim == InitPrim /\ [][NextPrim]_vars

-----------------------------------------------------------------------------
(* The application lifecycle: tools.initApp, startApp, shutdownApp *)

\* _.extend(a, b): the keys of both, b's value where both have the key
Extend(a, b) ==
  [ k \in DOMAIN a \cup DOMAIN b |-> IF k \in DOMAIN b THEN b[k] ELSE a[k] ]

\* the generations that drive an application
HasApp(v) == IsTools(v)

\* the first getTools generation also sets category and minLevel
DefaultLogging(v) ==
  IF v = "tools1"
  THEN [category |-> "test", minLevel |-> "DEBUG", appenders |-> <<>>]
  ELSE [appenders |-> <<>>]

DefaultDb ==
  [main |-> [type |-> "rethinkdb",
             serverConfig |->
               [db |-> "waigo_test",
                servers |-> << [host |-> "127.0.0.1", port |-> 28015] >>]]]

\* the defaults startApp merges the caller's config over
DefaultConfig(v) ==
  [port |-> 33211, baseURL |-> "http://localhost:33211",
   logging |-> DefaultLogging(v), db |-> DefaultDb]

\* (mutant) the defaults are laid over the caller's config
MergedConfigDefaultsWin(v, config) == Extend(config, DefaultConfig(v))

\* (mutant) a nested default is merged with the caller's value, as _.merge
\* would, instead of being replaced by it
MergedConfigDeep(v, config) ==
  LET flat == Extend(DefaultConfig(v), config)
  IN IF "db" \in DOMAIN config
     THEN [flat EXCEPT !.db = [main |-> Extend(DefaultConfig(v).db.main,
                                               config.db.main)]]
     ELSE flat

\* config = _.extend({ port: ..., baseURL: ..., logging: ..., db: ... }, config)
MergedConfig(v, config) == Extend(DefaultConfig(v), config)

\* postConfig: (cfg) => { _.extend(cfg, config) }
postConfig(cfg, config) == Extend(cfg, config)

\* the configuration the application has loaded when postConfig is called
LoadedConfig == [port |-> 3000, mode |-> "test"]

\* _.extend({ appFolder: this.appFolder }, initOptions)
InitOptions(v, initOptions) ==
  Extend([appFolder |-> AppFolder(v)], initOptions)

\* the options a test gives to initApp
InitOptionsGiven ==
  { EmptyObject,
    [extra |-> "x"],
    [appFolder |-> Append(TestDataFolder, <<"other">>)] }

\* the configs a test gives to startApp
StartConfigs ==
  { EmptyObject,
    [port |-> 9999],
    [port |-> 9999, baseURL |-> "http://localhost:9999"],
    [db |-> [main |-> [type |-> "mock"]]],
    [custom |-> "x"] }

\* the lifecycle state of the harness
LifecycleState(a) ==
  IF a.handle = 0 THEN "UNINITIALIZED"
  ELSE IF a.status[a.handle] = "new" THEN "INITIALIZED"
  ELSE IF a.status[a.handle] = "running" THEN "RUNNING"
  ELSE "STOPPED"

\* a lifecycle call begins
Begin(a, op, arg) ==
  [a EXCEPT !.op = op, !.arg = arg, !.res = "pending",
            !.from = LifecycleState(a),
            !.old = IF a.handle = 0 THEN {} ELSE {a.handle},
            !.calls = @ + 1]

\* waigo.reset()
waigoReset(a) ==
  [a EXCEPT !.inited = FALSE, !.opts = EmptyObject, !.log = Append(@, "reset")]

\* yield waigo.init(options), which resolves or rejects
waigoInit(a, options, ok) ==
  IF ok
  THEN [a EXCEPT !.inited = TRUE, !.opts = options, !.log = Append(@, "init")]
  ELSE [a EXCEPT !.log = Append(@, "init")]

\* (mutant) a handle already there is kept
installHandleKept(a) ==
  IF a.handle # 0 THEN [a EXCEPT !.log = Append(@, "install")]
  ELSE [a EXCEPT !.handle = Len(a.status) + 1,
                 !.status = Append(@, "new"),
                 !.stops = Append(@, 0),
                 !.config = Append(@, LoadedConfig),
                 !.log = Append(@, "install")]

\* this.App = new (waigo.load('application')); in the first getTools
\* generation this.Application = waigo.load('application')
installHandle(a) ==
  [a EXCEPT !.handle = Len(a.status) + 1,
            !.status = Append(@, "new"),
            !.stops = Append(@, 0),
            !.config = Append(@, LoadedConfig),
            !.log = Append(@, "install")]

\* yield this.App.start({ postConfig: ... }), which resolves or rejects
appStart(a, merged, ok) ==
  IF ok
  THEN [a EXCEPT !.status[a.handle] = "running",
                 !.config[a.handle] = postConfig(LoadedConfig, merged),
                 !.log = Append(@, "start")]
  ELSE [a EXCEPT !.log = Append(@, "start")]

\* yield this.App.shutdown()
appShutdown(a) ==
  [a EXCEPT !.status[a.handle] = "stopped",
            !.stops[a.handle] = @ + 1,
            !.log = Append(@, "shutdown")]

\* the urls a test fetches: with and without the leading slash
FetchUrls == { <<"/", "x">>, <<"x">> }

\* if ('/' !== url.charAt(0)) { url = `/${url}` }
WithSlash(url) == IF url # <<>> /\ url[1] = "/" THEN url ELSE <<"/">> \o url

\* config.baseURL, or undefined turned into text by the + that follows
BaseURLOf(cfg) == IF "baseURL" \in DOMAIN cfg THEN cfg.baseURL ELSE "undefined"

\* got(this.App.config.baseURL + url, options): the address requested
fetch(a, url) == <<BaseURLOf(a.config[a.handle])>> \o WithSlash(url)

\* what the lifecycle calls leave alone
notApp == <<fsVars, asyncVars, bridge, prim, hooks>>

\* the first getTools generation reads `waigo` as a free identifier, which
\* the test's process has bound or not; the second takes it from its caller
InitApp ==
  /\ variant \in { v \in Variants : HasApp(v) }
  /\ fs = InitFs
  /\ pc = "app"
  /\ last = NoCall
  /\ built = NoCall
  /\ AsyncIdle
  /\ bridge = BridgeIdle
  /\ prim = NoPrim
  /\ \E b \in (IF variant = "tools1" THEN BOOLEAN ELSE {TRUE}) :
       application = [NoApp EXCEPT !.bound = b]
  /\ hooks = NoHooks

CanCallApp == pc = "app" /\ application.step = "idle" /\ application.calls < MaxAppCalls

\* initApp up to its yield: waigo.reset(), then waigo.init is called
InitAppReset ==
  /\ CanCallApp
  /\ \E initOptions \in InitOptionsGiven :
       LET a == Begin(application, "initApp", initOptions)
       IN application' = IF ~application.bound THEN [a EXCEPT !.res = "reference"]
                 ELSE [waigoReset(a) EXCEPT !.step = "init"]
  /\ UNCHANGED notApp

\* waigo.init settles
InitAppInit ==
  /\ application.step = "init"
  /\ \E ok \in BOOLEAN :
       LET a == waigoInit(application, InitOptions(variant, application.arg), ok)
       IN application' = IF ok THEN [a EXCEPT !.step = "install"]
                 ELSE [a EXCEPT !.step = "idle", !.res = "fail"]
  /\ UNCHANGED notApp

\* initApp after its yield
InitAppInstall ==
  /\ application.step = "install"
  /\ application' = [installHandle(application) EXCEPT !.step = "idle", !.res = "ok"]
  /\ UNCHANGED notApp

\* startApp: without a handle this.App.start is a TypeError
StartApp ==
  /\ CanCallApp
  /\ \E config \in StartConfigs, ok \in BOOLEAN :
       LET a == Begin(application, "startApp", config)
       IN application' = IF application.handle = 0 THEN [a EXCEPT !.res = "type"]
                 ELSE [appStart(a, MergedConfig(variant, config), ok)
                         EXCEPT !.res = IF ok THEN "ok" ELSE "fail"]
  /\ UNCHANGED notApp

\* shutdownApp: if (this.App) { yield this.App.shutdown() }
ShutdownApp ==
  /\ CanCallApp
  /\ LET a == Begin(application, "shutdownApp", EmptyObject)
     IN application' = IF application.handle = 0 THEN [a EXCEPT !.res = "ok"]
               ELSE [appShutdown(a) EXCEPT !.res = "ok"]
  /\ UNCHANGED notApp

\* fetch: without a handle this.App.config is a TypeError; before the first
\* start the application may not have loaded a configuration yet
Fetch ==
  /\ CanCallApp
  /\ \E url \in FetchUrls, loaded \in BOOLEAN :
       LET a == [Begin(application, "fetch", EmptyObject) EXCEPT !.url = url]
       IN application' =
            IF application.handle = 0
               \/ (LifecycleState(application) = "INITIALIZED" /\ ~loaded)
            THEN [a EXCEPT !.res = "type", !.request = <<>>]
            ELSE [a EXCEPT !.res = "ok", !.request = fetch(a, url)]
  /\ UNCHANGED notApp

NextApp ==
  \/ InitAppReset
  \/ Fetch
  \/ InitAppInit
  \/ InitAppInstall
  \/ StartApp
  \/ ShutdownApp

SpecApp == InitApp /\ [][NextApp]_vars

-----------------------------------------------------------------------------
(* The coroutine/async bridge: tools.awaitAsync and tools.mustThrow *)

\* what a computation can fail with: errors, one of them with a message that
\* only starts like another's, and a thrown object that is no Error
Failures ==
  { [id |-> 1, kind |-> "Error", message |-> "boom"],
    [id |-> 2, kind |-> "Error", message |-> "bang"],
    [id |-> 3, kind |-> "Error", message |-> "boom!"],
    [id |-> 4, kind |-> "object", message |-> "boom"] }

Values == {"v1", "v2"}

\* the messages mustThrow is asked to expect
Msgs == {"boom", "bang"}

\* a suspension point of a sequence: the value yielded resolves ("ok"), or it
\* fails and the sequence handles the failure ("caught"), or it fails and the
\* failure leaves the sequence ("raise")
SuspensionPoints ==
  {[kind |-> "ok", error |-> NoError]}
    \cup { [kind |-> k, error |-> e] : k \in {"caught", "raise"}, e \in Failures }

PendingValues ==
  { [kind |-> "pending", ok |-> TRUE, value |-> v, error |-> NoError,
     steps |-> <<>>] : v \in Values }
    \cup { [kind |-> "pending", ok |-> FALSE, value |-> "none", error |-> e,
            steps |-> <<>>] : e \in Failures }

\* a suspend/resume sequence: its suspension points and the value it returns
Sequences ==
  { [kind |-> "sequence", ok |-> TRUE, value |-> v, error |-> NoError,
     steps |-> s] :
      v \in Values,
      s \in UNION { [1..n -> SuspensionPoints] : n \in 0..MaxYields } }

\* what awaitAsync is given
Computations == PendingValues \cup Sequences

\* the promise co returns is resolved
resolve(b, v) ==
  [b EXCEPT !.outcome = Resolved(v), !.settled = @ + 1, !.done = TRUE]

\* (mutant) the failure is replaced by a new error with the same message
rejectWrapped(b, e) ==
  [b EXCEPT !.outcome = Failed([id |-> 0, kind |-> "Error",
                                message |-> e.message]),
            !.settled = @ + 1, !.done = TRUE]

\* the promise co returns is rejected: `return yield genOrPromiseFn` throws
\* what the yielded computation failed with, and nothing catches it
reject(b, e) ==
  [b EXCEPT !.outcome = Failed(e), !.settled = @ + 1, !.done = TRUE]

\* co resumes the sequence past a suspension point whose value resolved
onFulfilled(b) == [b EXCEPT !.at = @ + 1]

\* (mutant) a failure that leaves the sequence does not end it
onRejectedContinue(b, point) ==
  IF point.kind = "caught" THEN [b EXCEPT !.at = @ + 1]
  ELSE [reject(b, point.error) EXCEPT !.at = @ + 1, !.done = FALSE]

\* co throws the failure into the sequence at the suspension point: the
\* sequence handles it and goes on, or the failure leaves it and ends it
onRejected(b, point) ==
  IF point.kind = "caught" THEN [b EXCEPT !.at = @ + 1]
  ELSE [reject(b, point.error) EXCEPT !.at = @ + 1]

\* tools.awaitAsync(genOrPromiseFn)
awaitAsync(comp) ==
  [BridgeIdle EXCEPT !.op = "awaitAsync", !.comp = comp]

\* (mutant) the matcher looks for an Error and not at its message
isErrorAnyMessage(e, msg) == e.kind = "Error"

\* must's error(msg): an Error whose message is msg
isError(e, msg) == e.kind = "Error" /\ e.message = msg

\* .must.reject.with.error(errorMsg) on a settled outcome
mustReject(o, msg) ==
  IF o.state = "failed" /\ isError(o.error, msg) THEN "passed"
  ELSE "assertion"

\* tools.mustThrow(genOrPromiseFn, errorMsg), driven by the test runner
mustThrow(comp, msg) ==
  [awaitAsync(comp) EXCEPT !.op = "mustThrow", !.msg = msg,
                           !.verdict = "pending"]

\* what the actions of the bridge leave alone
notBridge == <<fsVars, asyncVars, prim, application, hooks>>

InitBridge ==
  /\ variant = "tools2"
  /\ fs = InitFs
  /\ pc = "bridge"
  /\ last = NoCall
  /\ built = NoCall
  /\ AsyncIdle
  /\ bridge = BridgeIdle
  /\ prim = NoPrim
  /\ application = NoApp
  /\ hooks = NoHooks

AwaitAsync ==
  /\ pc = "bridge"
  /\ bridge.op = "idle"
  /\ \E comp \in Computations : bridge' = awaitAsync(comp)
  /\ UNCHANGED notBridge

MustThrow ==
  /\ pc = "bridge"
  /\ bridge.op = "idle"
  /\ \E comp \in Computations, msg \in Msgs : bridge' = mustThrow(comp, msg)
  /\ UNCHANGED notBridge

\* the pending value given to awaitAsync settles
SettlePending ==
  /\ bridge.comp.kind = "pending"
  /\ ~bridge.done
  /\ bridge' = IF bridge.comp.ok THEN resolve(bridge, bridge.comp.value)
               ELSE reject(bridge, bridge.comp.error)
  /\ UNCHANGED notBridge

\* the value yielded at the next suspension point of the sequence settles
Resume ==
  /\ bridge.comp.kind = "sequence"
  /\ ~bridge.done
  /\ bridge.at < Len(bridge.comp.steps)
  /\ LET point == bridge.comp.steps[bridge.at + 1]
     IN bridge' = IF point.kind = "ok" THEN onFulfilled(bridge)
                  ELSE onRejected(bridge, point)
  /\ UNCHANGED notBridge

\* the sequence returns
Return ==
  /\ bridge.comp.kind = "sequence"
  /\ ~bridge.done
  /\ bridge.at = Len(bridge.comp.steps)
  /\ bridge' = resolve(bridge, bridge.comp.value)
  /\ UNCHANGED notBridge

\* the assertion of mustThrow on the settled outcome
MustReject ==
  /\ bridge.op = "mustThrow"
  /\ bridge.verdict = "pending"
  /\ bridge.outcome.state # "pending"
  /\ bridge' = [bridge EXCEPT !.verdict = mustReject(bridge.outcome, bridge.msg)]
  /\ UNCHANGED notBridge

NextBridge ==
  \/ AwaitAsync
  \/ MustThrow
  \/ SettlePending
  \/ Resume
  \/ Return
  \/ MustReject

SpecBridge == InitBridge /\ [][NextBridge]_vars

-----------------------------------------------------------------------------
(* The per-test hooks                                                      *)
(*                                                                         *)
(* Every generation hands the runner a suite { beforeEach, afterEach }.    *)
(* The runner (mocha, exports interface) takes the tests of the suite one  *)
(* after the other: beforeEach, the test body, afterEach.  When a hook     *)
(* throws, the body is skipped, afterEach is still run for that test, and  *)
(* the rest of the suite is abandoned.                                     *)
(*                                                                         *)
(* Sandboxes are numbered in the order sinon.sandbox.create() makes them.  *)
(* The mocker slot is `test.mocker` in src/index.js and `this.mocker`, on  *)
(* the suite's context, in src/unnamed/part_000.                           *)

\* exports.mocha of the first getTools generation reads options.name of the
\* options it was given; the other generations default their options
register(v, given) ==
  IF v = "tools1" /\ ~given THEN "type" ELSE "ok"

\* exports.create declares `tests` and its hooks assign to `test.mocker`:
\* there `test` is a free identifier, bound or not by the test's process
MockerHolderBound(v, h) == v # "create" \/ h.testBound

NoTest ==
  [sandbox |-> 0, before |-> "none", body |-> "none", after |-> "none",
   restored |-> 0]

\* beforeEach: the holder of the mocker slot is evaluated first, then the
\* sandbox is made and stored
beforeEach(v, h) ==
  IF ~MockerHolderBound(v, h)
  THEN [h EXCEPT !.tests = Append(@, [NoTest EXCEPT !.before = "reference",
                                                     !.body = "skipped"]),
                 !.phase = "ran"]
  ELSE LET id == h.made + 1
       IN [h EXCEPT !.made = id, !.slot = id,
                    !.tests = Append(@, [NoTest EXCEPT !.sandbox = id,
                                                       !.before = "ok"]),
                    !.phase = "ready"]

\* afterEach: restore() of whatever the mocker slot holds
afterEach(v, h) ==
  LET n == Len(h.tests)
      hookFailed == h.tests[n].before # "ok"
      next == IF hookFailed THEN "aborted" ELSE "idle"
  IN IF ~MockerHolderBound(v, h)
     THEN [h EXCEPT !.tests[n].after = "reference", !.phase = "aborted"]
     ELSE IF h.slot = 0
     THEN [h EXCEPT !.tests[n].after = "type", !.phase = "aborted"]
     ELSE [h EXCEPT !.restored = @ \cup {h.slot},
                    !.tests[n].after = "ok", !.tests[n].restored = h.slot,
                    !.phase = next]

\* what the hooks leave alone
notHooks == <<fsVars, asyncVars, bridge, prim, application>>

InitHooks ==
  /\ variant \in Variants
  /\ fs = InitFs
  /\ pc = "hooks"
  /\ last = NoCall
  /\ built = NoCall
  /\ AsyncIdle
  /\ bridge = BridgeIdle
  /\ prim = NoPrim
  /\ application = NoApp
  /\ \E b \in (IF variant = "create" THEN BOOLEAN ELSE {TRUE}) :
       hooks = [NoHooks EXCEPT !.testBound = b]

\* the test file hands its module to the harness, with options or without
Register ==
  /\ pc = "hooks"
  /\ hooks.registered = "no"
  /\ \E given \in BOOLEAN :
       hooks' = [hooks EXCEPT !.options = given,
                              !.registered = register(variant, given)]
  /\ UNCHANGED notHooks

BeforeEach ==
  /\ pc = "hooks"
  /\ hooks.registered = "ok"
  /\ hooks.phase = "idle"
  /\ Len(hooks.tests) < MaxTests
  /\ hooks' = beforeEach(variant, hooks)
  /\ UNCHANGED notHooks

\* the test body passes or fails
TestBody ==
  /\ pc = "hooks"
  /\ hooks.phase = "ready"
  /\ \E result \in {"pass", "fail"} :
       hooks' = [hooks EXCEPT !.tests[Len(hooks.tests)].body = result,
                              !.phase = "ran"]
  /\ UNCHANGED notHooks

AfterEach ==
  /\ pc = "hooks"
  /\ hooks.phase = "ran"
  /\ hooks' = afterEach(variant, hooks)
  /\ UNCHANGED notHooks

NextHooks ==
  \/ Register
  \/ BeforeEach
  \/ TestBody
  \/ AfterEach

SpecHooks == InitHooks /\ [][NextHooks]_vars

-----------------------------------------------------------------------------
(* Vocabulary of the claims about fixture construction *)

AllPaths(f) == f.dirs \cup DOMAIN f.files

\* the files a call created or whose content it changed
FilesWritten(before, after) ==
  { p \in DOMAIN after.files :
      p \notin DOMAIN before.files \/ before.files[p] # after.files[p] }

DirsMade(before, after) == after.dirs \ before.dirs

IsModulesCall(c) == c.op \in {"createModules", "createAppModules"}

\* the name -> content pairs of a recorded call
EntriesOf(c) == Expand(c.modules, c.label)

\* the file of each entry of a recorded call
PathsOf(c) ==
  [ i \in DOMAIN EntriesOf(c) |->
      ModuleFileName(variant, c.target, EntriesOf(c)[i].name) ]

\* two entries whose files lie below one folder inside the target folder
SharesAncestor(c) ==
  \E i, j \in DOMAIN PathsOf(c) :
    /\ i # j
    /\ \E d \in Prefixes(Front(PathsOf(c)[i])) :
         /\ IsPrefix(c.target, d)
         /\ d # c.target
         /\ IsPrefix(d, Front(PathsOf(c)[j]))

\* every entry's file is there with the entry's content
AllMaterialized(c, f) ==
  \A i \in DOMAIN PathsOf(c) :
    /\ IsFile(f, PathsOf(c)[i])
    /\ f.files[PathsOf(c)[i]] = EntriesOf(c)[i].content

\* no entry's file path names a directory, is a directory, lies below a file,
\* or collides with another entry's file or with a folder another entry needs
NoConflict(c) ==
  LET ps == PathsOf(c)
      es == EntriesOf(c)
  IN /\ \A i \in DOMAIN ps :
          /\ Last(ps[i]) # <<".">>
          /\ ~IsDir(c.before, ps[i])
          /\ \A q \in Prefixes(Front(ps[i])) : ~IsFile(c.before, q)
     /\ \A i, j \in DOMAIN ps :
          i # j => /\ ps[i] = ps[j] => es[i].content = es[j].content
                   /\ ps[j] \notin Prefixes(Front(ps[i]))

-----------------------------------------------------------------------------
(* C1 *)

\* C1: for every plugin name that does not end in _TESTPLUGIN,
\* createPluginModules raises the precondition failure and leaves the
\* filesystem exactly as it was (so no folder for the name appears), for
\* every batch of module specs and in every generation of the harness.
C1_UnmarkedNameRejected ==
  (last.op = "createPluginModules" /\ ~EndsWith(last.name, Marker))
    => /\ last.res = "precondition"
       /\ fs = last.before
       /\ ~Exists(last.before, PluginFolderPath(last.name))
            => ~Exists(fs, PluginFolderPath(last.name))

C1_Witness ==
  /\ variant = "promise"
  /\ last.op = "createPluginModules"
  /\ last.name = <<"p", "TESTPLUGIN">>
  /\ last.modules.kind = "object"
  /\ last.res = "precondition"
  /\ ~IsDir(fs, PluginFolderPath(last.name))

-----------------------------------------------------------------------------
(* C2 *)

\* what the fixture construction of the test body added to the plugins folder
PluginTrace ==
  { p \in AllPaths(last.before) \ AllPaths(built.before) :
      IsPrefix(PluginsFolder, p) }

\* C2: after createPluginModules(n, specs) with a name n ending in
\* _TESTPLUGIN, followed by deleteTestFolders(), nothing that was created
\* for n remains under the plugins directory.
C2_SweepLeavesNoTrace ==
  ( /\ pc = "swept"
    /\ built.op = "createPluginModules"
    /\ EndsWith(built.name, Marker)
    /\ last.op = "deleteTestFolders" )
    => \A p \in PluginTrace : ~Exists(fs, p)

-----------------------------------------------------------------------------
(* C3 *)

\* C3 as stated: for any batch in which two or more names share an
\* ancestor directory, createModules completes without failure and every
\* entry's file exists with exactly its own content, whether or not the
\* shared ancestor existed before the call.
C3_AsStated ==
  (IsModulesCall(last) /\ SharesAncestor(last))
    => (last.res = "ok" /\ AllMaterialized(last, fs))

\* C3 (amended): the same, for batches whose entries resolve to file paths
\* that do not collide: no two entries with different contents share a file,
\* no entry's file sits where another entry needs a folder, and before the
\* call no file path is a directory and no folder on the way to one is a file.
C3_SharedAncestorBatch ==
  (IsModulesCall(last) /\ SharesAncestor(last) /\ NoConflict(last))
    => (last.res = "ok" /\ AllMaterialized(last, fs))

\* two siblings below a folder that the call itself had to make
C3_Witness ==
  /\ last.op = "createModules"
  /\ last.modules = ObjectOf(<< <<"a", "/", "b">>, <<"a", "/", "c">> >>)
  /\ SharesAncestor(last)
  /\ NoConflict(last)
  /\ ~IsDir(last.before, Append(last.target, <<"a">>))
  /\ IsDir(fs, Append(last.target, <<"a">>))
  /\ last.res = "ok"
  /\ AllMaterialized(last, fs)

-----------------------------------------------------------------------------
(* C8 *)

Inside(root, p) == IsPrefix(root, p) /\ p # root

\* C8: for every module name, the file that is written lies strictly inside
\* the target fixture root, and no directory or file is created outside it
\* (the folders leading to the root itself aside).
C8_WritesStayInsideRoot ==
  IsModulesCall(last)
    => /\ \A p \in FilesWritten(last.before, fs) : Inside(last.target, p)
       /\ \A d \in DirsMade(last.before, fs) :
            IsPrefix(last.target, d) \/ IsPrefix(d, last.target)

-----------------------------------------------------------------------------
(* C9 *)

\* the extension the claim gives a name: its own if it carries one, else .js
ClaimedExt(name) == IF ExtName(name) # <<>> THEN ExtName(name) ELSE DefaultExt

ClaimedFile(folder, name) == AppendStr(JoinPath(folder, name), ClaimedExt(name))

\* C9: for every module name, createModules writes the file at
\* join(targetFolder, name) plus the name's own extension if it carries one
\* and plus .js otherwise; .js is appended only to names without extension.
C9_ExtensionFromName ==
  (IsModulesCall(last) /\ last.res = "ok")
    => \A i \in DOMAIN EntriesOf(last) :
         LET name == EntriesOf(last)[i].name
             file == ClaimedFile(last.target, name)
             js   == AppendStr(JoinPath(last.target, name), DefaultExt)
         IN /\ file \in FilesWritten(last.before, fs)
            /\ ExtName(name) # <<>> => js \notin FilesWritten(last.before, fs)

-----------------------------------------------------------------------------
(* C10 *)

\* k.js under the application root: the path appFolder/k.js (whether that
\* path stays inside the root is C8's subject)
AppJsFile(k) == JoinSegs(AppFolder(variant), k \o DefaultExt)

\* the names of a bare list
NamesOf(modules) == { modules.entries[i].name : i \in DOMAIN modules.entries }

IsBareList(c) == c.op = "createAppModules" /\ c.modules.kind = "list"

\* C10 as stated: every name k of a bare list given to createAppModules
\* yields k.js under the application root with content
\* module.exports="app"; and no file is written for any other name.
C10_AsStated ==
  IsBareList(last)
    => /\ \A k \in NamesOf(last.modules) :
            /\ IsFile(fs, AppJsFile(k))
            /\ fs.files[AppJsFile(k)] = ModuleContent(AppLabel)
       /\ FilesWritten(last.before, fs)
            \subseteq { AppJsFile(k) : k \in NamesOf(last.modules) }

\* the extension a generation gives a bare name
BareExt(k) ==
  IF IsTools(variant) /\ ExtName(k) # <<>> THEN ExtName(k) ELSE DefaultExt

\* join(appFolder, k) followed by the extension
AppFileOf(k) == AppendStr(JoinPath(AppFolder(variant), k), BareExt(k))

\* C10 (amended): for every bare list whose files do not collide with each
\* other or with what the tree already holds, every name k yields the file
\* join(appFolder, k) + ext with content module.exports="app"; where ext is
\* .js for a name without extension (the file is k.js) and, in the getTools
\* generations, the name's own extension otherwise; no other file is written.
C10_BareListExpansion ==
  (IsBareList(last) /\ NoConflict(last))
    => /\ last.res = "ok"
       /\ \A k \in NamesOf(last.modules) :
            /\ IsFile(fs, AppFileOf(k))
            /\ fs.files[AppFileOf(k)] = ModuleContent(AppLabel)
       /\ FilesWritten(last.before, fs)
            = { AppFileOf(k) : k \in NamesOf(last.modules) }

C10_Witness ==
  /\ IsBareList(last)
  /\ last.modules = ListOf(<< <<"a">>, <<"a", "/", "b">> >>)
  /\ NoConflict(last)
  /\ last.res = "ok"
  /\ IsFile(fs, Append(AppFolder(variant), <<"a", ".", "js">>))
  /\ fs.files[Append(AppFolder(variant), <<"a", ".", "js">>)]
       = <<"module.exports=\"", "app", "\";">>

-----------------------------------------------------------------------------
(* C4 *)

TaskOf(kind, i) ==
  CHOOSE j \in DOMAIN tasks : tasks[j].kind = kind /\ tasks[j].entry = i

EntryIndexes == { tasks[j].entry : j \in DOMAIN tasks }

\* C4: in the promise-returning createModules the entries of a batch are
\* processed strictly one at a time: the create-folder step of entry i+1
\* does not start before the write-file step of entry i has completed, and
\* never are two create-folder or write-file operations of the batch in
\* flight together.
C4_OneEntryAtATime ==
  last.op = "createModules"
    => /\ Cardinality(Running) <= 1
       /\ \A i \in EntryIndexes :
            (i + 1 \in EntryIndexes
               /\ tasks[TaskOf("createFolder", i + 1)].status # "waiting")
              => tasks[TaskOf("writeFile", i)].status = "done"

\* the second entry's folder is being made, the first entry's file is written
C4_Witness ==
  /\ last.op = "createModules"
  /\ Len(tasks) = 4
  /\ tasks[2].status = "done"
  /\ tasks[3].status = "running"
  /\ tasks[4].status = "waiting"
  /\ IsFile(fs, tasks[2].path)

-----------------------------------------------------------------------------
(* C5, C6, C7 *)

RECURSIVE FirstRaised(_)
\* the first failure that leaves the sequence, NoError if none does
FirstRaised(steps) ==
  IF steps = <<>> THEN NoError
  ELSE IF Head(steps).kind = "raise" THEN Head(steps).error
  ELSE FirstRaised(Tail(steps))

\* what the computation comes to
Expected(comp) ==
  IF comp.kind = "pending"
  THEN IF comp.ok THEN Resolved(comp.value) ELSE Failed(comp.error)
  ELSE IF FirstRaised(comp.steps) # NoError
       THEN Failed(FirstRaised(comp.steps))
       ELSE Resolved(comp.value)

Settled == bridge.outcome.state # "pending"

\* C5: the outcome awaitAsync returns settles exactly once: it moves from
\* pending to resolved or failed, is settled at most once and never changes
\* afterwards; it is what the computation comes to, which for a sequence with
\* a suspension point that raises is the first failure raised.
C5_SettlesOnce ==
  /\ [](/\ bridge.settled <= 1
        /\ Settled <=> bridge.settled = 1
        /\ bridge.outcome.state \in {"pending", "resolved", "failed"}
        /\ Settled => bridge.outcome = Expected(bridge.comp))
  /\ [][Settled => bridge'.outcome = bridge.outcome]_vars

\* a first failure handled inside the sequence, a second one raised
C5_Witness ==
  /\ bridge.comp.kind = "sequence"
  /\ Len(bridge.comp.steps) = 2
  /\ bridge.comp.steps[1].kind = "caught"
  /\ bridge.comp.steps[2].kind = "raise"
  /\ bridge.outcome = Failed(bridge.comp.steps[2].error)
  /\ bridge.settled = 1

Judged == bridge.op = "mustThrow" /\ bridge.verdict # "pending"

\* C6 as stated: mustThrow settles successfully if and only if the outcome
\* is a failure whose message matches msg, and as an assertion failure
\* otherwise.
C6_AsStated ==
  Judged =>
    /\ bridge.verdict = "passed"
         <=> /\ bridge.outcome.state = "failed"
             /\ bridge.outcome.error.message = bridge.msg
    /\ bridge.verdict \in {"passed", "assertion"}

\* C6: mustThrow(seq, msg) settles successfully if and only if seq's outcome
\* is a failure that is an Error whose message is exactly msg; it settles as
\* an assertion failure when seq resolves with any value, when seq fails with
\* another message, and when seq fails with something that is not an Error.
C6_ErrorWithMessage ==
  Judged =>
    /\ bridge.verdict = "passed"
         <=> /\ bridge.outcome.state = "failed"
             /\ bridge.outcome.error.kind = "Error"
             /\ bridge.outcome.error.message = bridge.msg
    /\ bridge.verdict # "passed" => bridge.verdict = "assertion"
    /\ bridge.outcome = Expected(bridge.comp)

\* a sequence that raised an Error with another message was judged
C6_Witness ==
  /\ Judged
  /\ bridge.comp.kind = "sequence"
  /\ bridge.outcome.state = "failed"
  /\ bridge.outcome.error.kind = "Error"
  /\ bridge.outcome.error.message # bridge.msg
  /\ bridge.verdict = "assertion"

RaisesAtFirst(comp) ==
  comp.kind = "sequence" /\ comp.steps # <<>> /\ comp.steps[1].kind = "raise"

\* C7: awaitAsync of a pending value that resolves to v settles resolved
\* with exactly v; awaitAsync of a sequence that raises e at its first
\* suspension point settles failed with exactly e, the same error.
C7_ExactValueAndError ==
  Settled =>
    /\ (bridge.comp.kind = "pending" /\ bridge.comp.ok)
         => bridge.outcome = Resolved(bridge.comp.value)
    /\ RaisesAtFirst(bridge.comp)
         => bridge.outcome = Failed(bridge.comp.steps[1].error)

\* the sequence raised at its first suspension point and awaitAsync settled
C7_Witness ==
  /\ bridge.op = "awaitAsync"
  /\ RaisesAtFirst(bridge.comp)
  /\ bridge.at = 1
  /\ bridge.outcome.state = "failed"
  /\ bridge.outcome.error.id = bridge.comp.steps[1].error.id

-----------------------------------------------------------------------------
(* C11 *)

ReadAfterWrite ==
  /\ prim.op = "readFile"
  /\ prim.prevOp = "writeFile"
  /\ prim.prevPath = prim.path
  /\ prim.prevRes = "ok"

\* C11 as stated: for every path p and content c, writeFile(p, c) followed
\* at once by readFile(p) returns exactly c.
C11_AsStated ==
  ReadAfterWrite => prim.res = "ok" /\ prim.value = prim.prevContents

\* C11: for every path p at which writeFile(p, c) succeeds, readFile(p)
\* called next succeeds; it returns exactly c when c is well-formed text
\* (also when p held other content before), and c with each unpaired
\* surrogate replaced by U+FFFD otherwise.
C11_RoundTripOfWellFormedText ==
  ReadAfterWrite =>
    /\ prim.res = "ok"
    /\ prim.value = Utf8Decode(Utf8Encode(prim.prevContents))
    /\ WellFormed(prim.prevContents) => prim.value = prim.prevContents

\* a surrogate pair written over the old content of the file and read back
C11_Witness ==
  /\ ReadAfterWrite
  /\ prim.path = PrimFile
  /\ IsFile(fs, PackageJsonPath(variant))
  /\ prim.value = <<HighSurrogate, LowSurrogate>>

-----------------------------------------------------------------------------
(* C12 *)

\* nothing exists at the parent of p, and no file sits on the way to it
ParentAbsent(f, p) == ~Exists(f, Front(p)) /\ CanMkdirP(f, Front(p))

\* C12: in every generation writeFile(p, c), called with a path whose parent
\* directory (or any ancestor) is absent, creates the missing directories
\* and writes the file instead of failing.
C12_WriteEnsuresParent ==
  (prim.op = "writeFile" /\ ParentAbsent(prim.before, prim.path))
    => /\ prim.res = "ok"
       /\ IsDir(fs, Front(prim.path))
       /\ IsFile(fs, prim.path)

-----------------------------------------------------------------------------
(* C13 *)

CreatedTwice ==
  /\ prim.op = "createFolder"
  /\ prim.prevOp = "createFolder"
  /\ prim.prevPath = prim.path

DeletedAbsent ==
  prim.op = "deleteFolder" /\ ~Exists(prim.before, prim.path)

-----------------------------------------------------------------------------
(* C14, C15 *)

ReadmePath(root) == Append(root, <<"README">>)

TestFoldersMade == prim.op = "createTestFolders" /\ prim.res = "ok"

\* C14: after createTestFolders() the application source root and the
\* public asset root both exist and the application root holds a non-empty
\* README marker file.
C14_BothRootsAndReadme ==
  TestFoldersMade =>
    /\ IsDir(fs, AppFolder(variant))
    /\ IsDir(fs, PublicFolder)
    /\ IsFile(fs, ReadmePath(AppFolder(variant)))
    /\ fs.files[ReadmePath(AppFolder(variant))] # <<>>

\* C15: after createTestFolders() the application root and the public asset
\* root each hold a README marker file.
C15_ReadmeInEachRoot ==
  (TestFoldersMade /\ HasPublic(variant)) =>
    /\ IsFile(fs, ReadmePath(AppFolder(variant)))
    /\ IsFile(fs, ReadmePath(PublicFolder))

-----------------------------------------------------------------------------
(* C16 *)

\* the tree is the same at the path and everywhere below it
SameBelow(f, g, p) ==
  /\ \A d \in f.dirs \cup g.dirs :
       IsPrefix(p, d) => (d \in f.dirs <=> d \in g.dirs)
  /\ \A q \in DOMAIN f.files \cup DOMAIN g.files :
       IsPrefix(p, q) => /\ IsFile(f, q) <=> IsFile(g, q)
                         /\ IsFile(f, q) => f.files[q] = g.files[q]

\* C16: deleteTestFolders() removes from the plugins directory exactly the
\* immediate children whose name ends in _TESTPLUGIN: every other immediate
\* child is left unchanged together with its contents, every child whose
\* name ends in the suffix is absent afterwards, and no child appears.
C16_SweepsExactlyMarkedChildren ==
  (prim.op = "deleteTestFolders" /\ prim.res = "ok") =>
    /\ \A c \in ReadDir(prim.before, PluginsFolder) :
         IF EndsWith(c, Marker)
         THEN ~Exists(fs, Append(PluginsFolder, c))
         ELSE SameBelow(prim.before, fs, Append(PluginsFolder, c))
    /\ ReadDir(fs, PluginsFolder) \subseteq ReadDir(prim.before, PluginsFolder)
    /\ IsDir(fs, PluginsFolder)

\* the marked package and the marked file are gone, the unmarked package
\* still holds its marked folder
C16_Witness ==
  /\ prim.op = "deleteTestFolders"
  /\ prim.res = "ok"
  /\ IsDir(prim.before, Append(PluginsFolder, <<"p", "_", "TESTPLUGIN">>))
  /\ IsFile(prim.before, Append(PluginsFolder, <<"q", "_", "TESTPLUGIN">>))
  /\ ReadDir(fs, PluginsFolder) = { <<"lib">> }
  /\ IsFile(fs, Append(PluginsFolder, <<"lib">>)
                  \o << <<"n", "_", "TESTPLUGIN">>, <<"x">> >>)

-----------------------------------------------------------------------------
(* C17 *)

\* the tree without the file at p
WithoutFile(f, p) ==
  [f EXCEPT !.files = [ q \in DOMAIN f.files \ {p} |-> f.files[q] ]]

PackageJsonDeleted == prim.op = "deletePackageJson"

\* C17: deletePackageJson() is an idempotent delete of the package
\* descriptor one level above the application root: it succeeds when the
\* file is absent, leaves the file absent when it was present, and touches
\* no other path; in the promise generation, where the existence check and
\* the unlink are separate steps, no step touches another path, the promise
\* is never rejected, and when it resolves the file is absent.
C17_IdempotentDelete ==
  PackageJsonDeleted =>
    /\ prim.path = Append(TestDataFolder, <<"package", ".", "json">>)
    /\ fs \in {prim.before, WithoutFile(prim.before, prim.path)}
    /\ ~IsPromise(variant)
         => prim.res = "ok" /\ fs = WithoutFile(prim.before, prim.path)
    /\ IsPromise(variant)
         => /\ outcome \in {"pending", "resolved"}
            /\ outcome = "resolved"
                 => fs = WithoutFile(prim.before, prim.path)

\* the promise generation found the file, unlinked it and resolved
C17_Witness ==
  /\ PackageJsonDeleted
  /\ IsPromise(variant)
  /\ IsFile(prim.before, prim.path)
  /\ tasks[2].status = "done"
  /\ outcome = "resolved"
  /\ ~Exists(fs, prim.path)

-----------------------------------------------------------------------------
(* C18 *)

\* every waigo.init comes right after a waigo.reset, and every handle is
\* installed right after a waigo.init
LogOrdered(log) ==
  \A i \in DOMAIN log :
    /\ log[i] = "init" => (i > 1 /\ log[i - 1] = "reset")
    /\ log[i] = "install" => (i > 1 /\ log[i - 1] = "init")

InitAppDone == application.op = "initApp" /\ application.res = "ok"

-----------------------------------------------------------------------------
(* C19 *)

StartAppDone == application.op = "startApp" /\ application.res = "ok"

RunningConfig == application.config[application.handle]

DefaultKeys == {"port", "baseURL", "logging", "db"}

\* C19: after initApp() and then startApp(config) the running configuration
\* of the application carries the caller's value for every key of config
\* and the harness default for every default key (port, baseURL, logging,
\* db) that config does not have.
C19_OverridesWinOverDefaults ==
  StartAppDone =>
    /\ LifecycleState(application) = "RUNNING"
    /\ \A k \in DOMAIN application.arg : RunningConfig[k] = application.arg[k]
    /\ \A k \in DefaultKeys \ DOMAIN application.arg :
         RunningConfig[k] = DefaultConfig(variant)[k]

\* startApp({port: 9999}): the port is the caller's, the rest is default
C19_Witness ==
  /\ StartAppDone
  /\ application.arg = [port |-> 9999]
  /\ RunningConfig.port = 9999
  /\ RunningConfig.baseURL = "http://localhost:33211"
  /\ RunningConfig.db = DefaultDb

-----------------------------------------------------------------------------
(* C20 *)

ShutdownAppDone == application.op = "shutdownApp" /\ application.res = "ok"

\* C20: shutdownApp() is a no-op when no application handle exists and
\* otherwise stops the application; after initApp, startApp and one
\* shutdownApp a second shutdownApp is a no-op that does not invoke the
\* shutdown of the application again.
C20_SecondShutdownIsNoop ==
  /\ application.handle = 0
       => \A i \in DOMAIN application.log : application.log[i] # "shutdown"
  /\ (ShutdownAppDone /\ application.from = "RUNNING")
       => LifecycleState(application) = "STOPPED"
  /\ (ShutdownAppDone /\ application.from = "STOPPED")
       => application.stops[application.handle] = 1

-----------------------------------------------------------------------------
(* C21 *)

\* the tests whose afterEach has run
TestsTornDown == { i \in DOMAIN hooks.tests : hooks.tests[i].after # "none" }

SandboxesMade == 1 .. hooks.made

\* C21: over any sequence of tests, every beforeEach completes and makes a
\* sandbox that no earlier test had, every afterEach completes and restores
\* the sandbox its own test's beforeEach made, and once an afterEach has run
\* no sandbox made so far is left unrestored; this in every generation of
\* the harness.
C21_SandboxPerTest ==
  /\ \A i \in DOMAIN hooks.tests :
       /\ hooks.tests[i].before = "ok"
       /\ hooks.tests[i].sandbox \in SandboxesMade
       /\ \A j \in 1 .. (i - 1) : hooks.tests[j].sandbox # hooks.tests[i].sandbox
  /\ \A i \in TestsTornDown :
       /\ hooks.tests[i].after = "ok"
       /\ hooks.tests[i].restored = hooks.tests[i].sandbox
  /\ (TestsTornDown = DOMAIN hooks.tests) => hooks.restored = SandboxesMade

-----------------------------------------------------------------------------
(* C22 *)

PluginBuilt == last.op = "createPluginModules" /\ last.res = "ok"

\* the text occurs in the other one
Embeds(text, part) ==
  \E i \in 1 .. (Len(text) - Len(part) + 1) :
    SubSeq(text, i, i + Len(part) - 1) = part

\* JSON.parse of a descriptor: an object of two string members, name and
\* version; a quote or a backslash inside the name ends the string early
ParseDescriptor(text) ==
  LET open  == "{ \"name\": \""
      close == "\", \"version\": \"0.0.1\" }"
      inner == SubSeq(text, 2, Len(text) - 1)
  IN IF /\ Len(text) >= 2
        /\ text[1] = open
        /\ text[Len(text)] = close
        /\ \A i \in DOMAIN inner : inner[i] \notin {"\"", "\\"}
     THEN [ok |-> TRUE, name |-> inner, version |-> "0.0.1"]
     ELSE [ok |-> FALSE, name |-> <<>>, version |-> ""]

\* C22: after a successful createPluginModules(n, specs) the folder
\* <pluginsRoot>/n holds package.json (a JSON object with name n and version
\* "0.0.1"), index.js, a public folder and a src folder; src holds a
\* non-empty README and one file per module spec, and the content of a spec
\* given as a bare name embeds the plugin name n.
C22_PluginPackageLayout ==
  PluginBuilt =>
    LET root   == PluginFolderPath(last.name)
        src    == PluginSrcPath(last.name)
        pkg    == ReadRaw(fs, Append(root, <<"package", ".", "json">>))
        readme == ReadRaw(fs, Append(src, <<"README">>))
    IN /\ IsDir(fs, root)
       /\ pkg.res = "ok"
       /\ ParseDescriptor(pkg.value).ok
       /\ ParseDescriptor(pkg.value).name = last.name
       /\ ParseDescriptor(pkg.value).version = "0.0.1"
       /\ IsFile(fs, Append(root, <<"index", ".", "js">>))
       /\ IsDir(fs, PluginPublicPath(last.name))
       /\ IsDir(fs, src)
       /\ readme.res = "ok" /\ readme.value # <<>>
       /\ \A i \in DOMAIN PathsOf(last) :
            /\ IsFile(fs, PathsOf(last)[i])
            /\ IsPrefix(src, PathsOf(last)[i])
            /\ last.modules.kind = "list"
                 => Embeds(ReadRaw(fs, PathsOf(last)[i]).value, last.name)

-----------------------------------------------------------------------------
(* C23 *)

\* C23: within one fixture-construction or teardown call of the promise
\* generation (createModules, createPluginModules, deleteTestFolders) no two
\* filesystem operations are in flight at the same time: each starts only
\* after the one before it has completed.
C23_OneOperationInFlight ==
  /\ Cardinality(Running) <= 1
  /\ \A j \in Running : \A k \in 1 .. (j - 1) : tasks[k].status # "waiting"

-----------------------------------------------------------------------------
(* C24 *)

FilePrimitives ==
  {"createFolder", "deleteFolder", "writeFile", "readFile", "deleteFile",
   "chmodFile"}

\* the underlying operation of the last call did not do what it was asked:
\* the folder is not there, the path is still there, the file does not hold
\* the text, there was no file to read or to unlink, no path to chmod
OperationFailed ==
  \/ prim.op = "createFolder" /\ ~IsDir(fs, prim.path)
  \/ prim.op = "deleteFolder" /\ Exists(fs, prim.path)
  \/ /\ prim.op = "writeFile"
     /\ ~(IsFile(fs, prim.path) /\ fs.files[prim.path] = Utf8Encode(prim.contents))
  \/ prim.op = "readFile" /\ ~IsFile(prim.before, prim.path)
  \/ prim.op = "deleteFile" /\ ~IsFile(prim.before, prim.path)
  \/ prim.op = "chmodFile" /\ ~Exists(prim.before, prim.path)

\* deleting what is absent, creating a folder that is present
ToleratedFailure ==
  \/ prim.op \in {"deleteFolder", "deleteFile"} /\ ~Exists(prim.before, prim.path)
  \/ prim.op = "createFolder" /\ IsDir(prim.before, prim.path)

\* C24: whenever the filesystem operation inside createFolder, deleteFolder,
\* writeFile, readFile, deleteFile or chmodFile fails, other than by
\* deleting what is absent or creating what is present, the caller of the
\* primitive gets a failure: the primitive does not return normally.
C24_FailuresReachCaller ==
  (prim.op \in FilePrimitives /\ OperationFailed /\ ~ToleratedFailure)
    => prim.res # "ok"

-----------------------------------------------------------------------------
(* C25 *)

\* the step takes the harness into RUNNING
EntersRunning ==
  /\ LifecycleState(application) # "RUNNING"
  /\ LifecycleState(application') = "RUNNING"

\* C25: RUNNING is reached only through INITIALIZED: a startApp made while
\* no initApp has produced a handle fails at the point of use, starts no
\* application and leaves the lifecycle state as it was; and the only step
\* into RUNNING is a startApp made in the state INITIALIZED.
C25_RunningOnlyFromInitialized ==
  /\ []((application.op = "startApp" /\ application.from = "UNINITIALIZED")
          => /\ application.res = "type"
             /\ LifecycleState(application) = "UNINITIALIZED"
             /\ \A i \in DOMAIN application.log : application.log[i] # "start")
  /\ [][EntersRunning
          => /\ LifecycleState(application) = "INITIALIZED"
             /\ application'.op = "startApp"]_vars

-----------------------------------------------------------------------------
(* C26 *)

\* the recorded createModules call cut after its first k entries
UpTo(c, k) ==
  CreateEach(variant, c.before, c.target, SubSeq(EntriesOf(c), 1, k))

\* entry k is the first one with a step that fails
FailsAt(c, k) == UpTo(c, k - 1).res = "ok" /\ UpTo(c, k).res # "ok"

\* C26: when the create-folder or write-file step of entry k of createModules
\* fails, the caller gets the failure (the promise of the promise generation
\* rejects), no step of an entry after k is executed, and the files of the
\* entries before k stay written: nothing is rolled back.
C26_FailureStopsBatch ==
  IsModulesCall(last) =>
    \A k \in DOMAIN EntriesOf(last) :
      FailsAt(last, k) =>
        /\ last.res = "io"
        /\ fs = UpTo(last, k).fs
        /\ \A p \in DOMAIN UpTo(last, k - 1).fs.files :
             IsFile(fs, p) /\ fs.files[p] = UpTo(last, k - 1).fs.files[p]

\* the second entry fails on the README in its way, the first one's file
\* is there
C26_Witness ==
  /\ IsModulesCall(last)
  /\ Len(EntriesOf(last)) = 2
  /\ FailsAt(last, 2)
  /\ last.res = "io"
  /\ FilesWritten(last.before, fs) = {PathsOf(last)[1]}
  /\ ~IsFile(fs, PathsOf(last)[2])

-----------------------------------------------------------------------------
(* C27 *)

FetchDone == application.op = "fetch" /\ application.res = "ok"

NestedDefaults == {"db", "logging"}

DefaultBaseURL == "http://localhost:33211"

\* C27: startApp lays the caller's config over the defaults key by key at the
\* top level only: the caller's value for a nested default (db, logging)
\* stands in place of the whole default sub-object, a config that overrides
\* port alone leaves baseURL at its default, and fetch requests the baseURL
\* of the merged configuration followed by the url, whatever the port is.
C27_TopLevelMergeOnly ==
  /\ StartAppDone =>
       /\ \A k \in NestedDefaults \cap DOMAIN application.arg :
            RunningConfig[k] = application.arg[k]
       /\ ("port" \in DOMAIN application.arg /\ "baseURL" \notin DOMAIN application.arg)
            => /\ RunningConfig.port = application.arg.port
               /\ RunningConfig.baseURL = DefaultBaseURL
  /\ (FetchDone /\ application.from = "RUNNING") =>
       /\ application.request[1] = RunningConfig.baseURL
       /\ Tail(application.request) = WithSlash(application.url)
       /\ "baseURL" \in DOMAIN RunningConfig

\* after startApp({port: 9999}) a fetch of 'x' goes to the default base URL
C27_Witness ==
  /\ FetchDone
  /\ application.from = "RUNNING"
  /\ RunningConfig.port = 9999
  /\ application.url = <<"x">>
  /\ application.request = <<DefaultBaseURL, "/", "x">>

=============================================================================
